---- MODULE Spec2Model ----
(***************************************************************************)
(* Model of the in-memory banking system of code2.cpp: class BankSystem    *)
(* with its account table, its process (transaction) table, the bank-wide  *)
(* mutex and the per-account mutexes, driven by concurrent callers.        *)
(*                                                                         *)
(* Array slots are numbered from 1 (the code numbers them from 0), so      *)
(* slot k of the model is accounts[k-1] / processes[k-1] of the code, and  *)
(* index 0 stands for "not found" (nullptr, or the loop running off the    *)
(* end).  The capacities MAX_ACCOUNTS and MAX_PROCESSES are the program's  *)
(* constants scaled down (1000 and 100 in the code).  Amounts are the      *)
(* finite, exactly representable values of the code's double.              *)
(***************************************************************************)
EXTENDS Integers, FiniteSets, Sequences, TLC

\* ------------------------------------------------------------------ bounds
NThreads == 2          \* concurrent callers of the BankSystem
MaxBalance == 2        \* a deposit that would lift a balance above it is not started
MaxAmount == 1         \* largest amount and initial balance a caller passes

\* ------------------------------------------------------- program constants
MAX_ACCOUNTS == 2
MAX_PROCESSES == 2

Threads == 1..NThreads
NoThread == 0
Amounts == (0 - 1)..MaxAmount
CustomerIds == {"alice"}
Types == {"Deposit", "Withdraw", "Transfer"}
AccountIdArgs == 1..MAX_ACCOUNTS
TidArgs == {0 - 1} \cup (1..MAX_PROCESSES)

VARIABLES accounts, processes, accountCount, processCount,
          nextAccountId, nextTransactionId, bankMutex, accMutex,
          pc, local

ledger == <<accounts, processes, accountCount, processCount,
            nextAccountId, nextTransactionId>>
vars == <<accounts, processes, accountCount, processCount,
          nextAccountId, nextTransactionId, bankMutex, accMutex,
          pc, local>>

\* A slot of accounts[] / processes[] that no creation has written yet.
NoAccount == [id |-> 0, customerId |-> "", balance |-> 0, active |-> FALSE]
NoProcess == [tid |-> 0, aid |-> 0, type |-> "", amount |-> 0, status |-> ""]

\* The locals of a caller that is in no operation.
\* done: the stores of createAccount that have reached memory.
NoLocal == [customerId |-> "", accountId |-> 0, amount |-> 0,
            proc |-> 0, acc |-> 0, bal |-> 0, done |-> {}]

Init ==
    /\ accounts = [k \in 1..MAX_ACCOUNTS |-> NoAccount]
    /\ processes = [k \in 1..MAX_PROCESSES |-> NoProcess]
    /\ accountCount = 0
    /\ processCount = 0
    /\ nextAccountId = 1
    /\ nextTransactionId = 1
    /\ bankMutex = NoThread
    /\ accMutex = [k \in 1..MAX_ACCOUNTS |-> NoThread]
    /\ pc = [t \in Threads |-> "idle"]
    /\ local = [t \in Threads |-> NoLocal]

\* ----------------------------------------------------------------- helpers
Min(S) == CHOOSE x \in S : \A y \in S : x <= y

\* A lock that never waits: the fault C5 rules out.
CanLock_Always(m) == TRUE

\* std::mutex::lock returns only when no thread owns the mutex.
CanLock(m) == m = NoThread

\* A lookup that forgets to compare the id: the fault C8 rules out.
findAccount_AnyId(accountId) ==
    LET hits == {k \in 1..accountCount : accounts[k].active}
    IN  IF hits = {} THEN 0 ELSE Min(hits)

\* findAccount: the first slot below accountCount that is active and has the id.
findAccount(accountId) ==
    LET hits == {k \in 1..accountCount :
                    accounts[k].active /\ accounts[k].id = accountId}
    IN  IF hits = {} THEN 0 ELSE Min(hits)

\* A search that falls back to the last transaction when none has the tid:
\* the fault C16 rules out.
FindProcess_Fallback(tid) ==
    LET hits == {k \in 1..processCount : processes[k].tid = tid}
    IN  IF hits = {} THEN processCount ELSE Min(hits)

\* The loop of executeProcess: the first slot below processCount with the tid.
FindProcess(tid) ==
    LET hits == {k \in 1..processCount : processes[k].tid = tid}
    IN  IF hits = {} THEN 0 ELSE Min(hits)

\* A counter that is read but not incremented: the fault C4 rules out.
NextId_Same(counter) == counter

\* The value of an id counter after "id = counter++".
NextId(counter) == counter + 1

\* Guards with a slip each, the faults C10, C9, C7, C6 and C1 rule out: an
\* off-by-one capacity check, a missing sign check, a deposit
\* check that lets 0 pass, a withdraw check that refuses the whole balance,
\* and a withdraw check that forgets the funds.
AccountLimitReached_OffByOne(count) == count > MAX_ACCOUNTS
InitialBalanceRejected_Never(initialBalance) == FALSE
DepositRejected_OnlyNegative(amount) == amount < 0
WithdrawRejected_WholeBalance(amount, balance) == amount <= 0 \/ balance <= amount
WithdrawRejected_NoFundsCheck(amount, balance) == amount <= 0

\* A capacity check that refuses the last free slot: the fault C15 rules out.
ProcessLimitReached_Early(count) == count >= MAX_PROCESSES - 1

\* The guards of createAccount and createProcess.
AccountLimitReached(count) == count >= MAX_ACCOUNTS
ProcessLimitReached(count) == count >= MAX_PROCESSES
InitialBalanceRejected(initialBalance) == initialBalance < 0

\* The guards of the Deposit and the Withdraw branch of executeProcess.
DepositRejected(amount) == amount <= 0
WithdrawRejected(amount, balance) == amount <= 0 \/ balance < amount

\* A withdrawal that credits the amount: the fault C19 rules out.
WithdrawResult_Credit(balance, amount) == balance + amount

DepositResult(balance, amount) == balance + amount
WithdrawResult(balance, amount) == balance - amount

\* The end of an operation of caller t: its locals are gone.
Return(t) ==
    /\ pc' = [pc EXCEPT ![t] = "idle"]
    /\ local' = [local EXCEPT ![t] = NoLocal]

\* ----------------------------------------------------------- createAccount
\* A caller's arguments are drawn in the step that first reads them.
CreateAccountLock(t) ==
    /\ pc[t] = "idle"
    /\ CanLock(bankMutex)
    /\ bankMutex' = t
    /\ pc' = [pc EXCEPT ![t] = "ca_check"]
    /\ UNCHANGED <<ledger, accMutex, local>>

\* The two checks (each returns -1), then "int accountId = nextAccountId++".
CreateAccountCheck(t, customerId, initialBalance) ==
    /\ pc[t] = "ca_check"
    /\ IF AccountLimitReached(accountCount) \/ InitialBalanceRejected(initialBalance)
       THEN /\ Return(t)
            /\ bankMutex' = NoThread
            /\ UNCHANGED <<ledger, accMutex>>
       ELSE /\ local' = [local EXCEPT ![t].accountId = nextAccountId,
                                      ![t].customerId = customerId,
                                      ![t].amount = initialBalance]
            /\ nextAccountId' = NextId(nextAccountId)
            /\ pc' = [pc EXCEPT ![t] = "ca_write"]
            /\ UNCHANGED <<accounts, processes, accountCount, processCount,
                           nextTransactionId, bankMutex, accMutex>>

\* The four field writes into accounts[accountCount].
CreateAccountWrite(t) ==
    /\ pc[t] = "ca_write"
    /\ accounts' = [accounts EXCEPT ![accountCount + 1] =
                        [id |-> local[t].accountId,
                         customerId |-> local[t].customerId,
                         balance |-> local[t].amount,
                         active |-> TRUE]]
    /\ pc' = [pc EXCEPT ![t] = "ca_commit"]
    /\ UNCHANGED <<processes, accountCount, processCount, nextAccountId,
                   nextTransactionId, bankMutex, accMutex, local>>

\* "accountCount++; return accountId;" and the release of bankMutex.
CreateAccountCommit(t) ==
    /\ pc[t] = "ca_commit"
    /\ accountCount' = accountCount + 1
    /\ bankMutex' = NoThread
    /\ Return(t)
    /\ UNCHANGED <<accounts, processes, processCount, nextAccountId,
                   nextTransactionId, accMutex>>

\* ----------------------------------------------------------- createProcess
CreateProcessLock(t) ==
    /\ pc[t] = "idle"
    /\ CanLock(bankMutex)
    /\ bankMutex' = t
    /\ pc' = [pc EXCEPT ![t] = "cp_body"]
    /\ UNCHANGED <<ledger, accMutex, local>>

\* The capacity check (returns -1), or the new Pending entry (returns its tid).
CreateProcessBody(t, accountId, type, amount) ==
    /\ pc[t] = "cp_body"
    /\ bankMutex' = NoThread
    /\ Return(t)
    /\ IF ProcessLimitReached(processCount)
       THEN UNCHANGED <<ledger, accMutex>>
       ELSE /\ processes' = [processes EXCEPT ![processCount + 1] =
                                [tid |-> nextTransactionId,
                                 aid |-> accountId,
                                 type |-> type,
                                 amount |-> amount,
                                 status |-> "Pending"]]
            /\ nextTransactionId' = NextId(nextTransactionId)
            /\ processCount' = processCount + 1
            /\ UNCHANGED <<accounts, accountCount, nextAccountId, accMutex>>

\* ---------------------------------------------------------- executeProcess
\* executeProcess runs its body on a thread it joins at once: the caller does
\* nothing else until the body has returned, so the caller's steps are the
\* body's steps.
ExecuteLock(t) ==
    /\ pc[t] = "idle"
    /\ CanLock(bankMutex)
    /\ bankMutex' = t
    /\ pc' = [pc EXCEPT ![t] = "ex_find"]
    /\ UNCHANGED <<ledger, accMutex, local>>

\* The balance a deposit by transaction tid would produce, were it executed
\* now (0 when tid is no acceptable deposit); it only bounds the model.
BalanceAfter(tid) ==
    LET p == FindProcess(tid)
        a == IF p = 0 THEN 0 ELSE findAccount(processes[p].aid)
    IN  IF a # 0 /\ processes[p].type = "Deposit"
             /\ ~DepositRejected(processes[p].amount)
        THEN DepositResult(accounts[a].balance, processes[p].amount)
        ELSE 0

\* The search loop, and findAccount on the process that was found.
ExecuteFind(t, tid) ==
    /\ pc[t] = "ex_find"
    /\ BalanceAfter(tid) <= MaxBalance
    /\ LET p == FindProcess(tid)
           a == IF p = 0 THEN 0 ELSE findAccount(processes[p].aid)
       IN  IF p = 0
           THEN /\ Return(t)
                /\ bankMutex' = NoThread
                /\ UNCHANGED <<ledger, accMutex>>
           ELSE IF a = 0
           THEN /\ processes' = [processes EXCEPT ![p].status = "Failed"]
                /\ Return(t)
                /\ bankMutex' = NoThread
                /\ UNCHANGED <<accounts, accountCount, processCount,
                               nextAccountId, nextTransactionId, accMutex>>
           ELSE /\ local' = [local EXCEPT ![t].proc = p, ![t].acc = a]
                /\ pc' = [pc EXCEPT ![t] = "ex_acclock"]
                /\ UNCHANGED <<ledger, bankMutex, accMutex>>

\* An execution that goes on without the account's mutex: the fault C12
\* rules out.
ExecuteAccLock_Skipped(t) ==
    /\ pc[t] = "ex_acclock"
    /\ pc' = [pc EXCEPT ![t] = "ex_check"]
    /\ UNCHANGED <<ledger, bankMutex, accMutex, local>>

\* lock_guard<mutex> accLock(acc->accMutex)
ExecuteAccLock(t) ==
    /\ pc[t] = "ex_acclock"
    /\ CanLock(accMutex[local[t].acc])
    /\ accMutex' = [accMutex EXCEPT ![local[t].acc] = t]
    /\ pc' = [pc EXCEPT ![t] = "ex_check"]
    /\ UNCHANGED <<ledger, bankMutex, local>>

\* A branch that treats every type other than "Withdraw" as a deposit: the
\* fault C18 rules out.
Rejected_DefaultDeposit(type, amount, balance) ==
    CASE type = "Withdraw" -> WithdrawRejected(amount, balance)
      [] OTHER -> DepositRejected(amount)

\* Whether the branch of proc.type refuses the transaction.
Rejected(type, amount, balance) ==
    CASE type = "Deposit" -> DepositRejected(amount)
      [] type = "Withdraw" -> WithdrawRejected(amount, balance)
      [] OTHER -> TRUE

\* An execution that empties the account before it reports the failure: the
\* fault C17 rules out.
ExecuteCheck_DebitThenFail(t) ==
    /\ pc[t] = "ex_check"
    /\ LET p == local[t].proc
           a == local[t].acc
       IN  IF Rejected(processes[p].type, processes[p].amount, accounts[a].balance)
           THEN /\ accounts' = [accounts EXCEPT ![a].balance = 0]
                /\ processes' = [processes EXCEPT ![p].status = "Failed"]
                /\ Return(t)
                /\ bankMutex' = NoThread
                /\ accMutex' = [accMutex EXCEPT ![a] = NoThread]
                /\ UNCHANGED <<accountCount, processCount,
                               nextAccountId, nextTransactionId>>
           ELSE /\ local' = [local EXCEPT ![t].bal = accounts[a].balance]
                /\ pc' = [pc EXCEPT ![t] = "ex_apply"]
                /\ UNCHANGED <<ledger, bankMutex, accMutex>>

\* The branch on proc.type and the amount check of the branch; a rejected
\* or unknown transaction is marked Failed and both locks are released.
ExecuteCheck(t) ==
    /\ pc[t] = "ex_check"
    /\ LET p == local[t].proc
           a == local[t].acc
       IN  IF Rejected(processes[p].type, processes[p].amount, accounts[a].balance)
           THEN /\ processes' = [processes EXCEPT ![p].status = "Failed"]
                /\ Return(t)
                /\ bankMutex' = NoThread
                /\ accMutex' = [accMutex EXCEPT ![a] = NoThread]
                /\ UNCHANGED <<accounts, accountCount, processCount,
                               nextAccountId, nextTransactionId>>
           ELSE /\ local' = [local EXCEPT ![t].bal = accounts[a].balance]
                /\ pc' = [pc EXCEPT ![t] = "ex_apply"]
                /\ UNCHANGED <<ledger, bankMutex, accMutex>>

\* "acc->balance += amount" or "-= amount" stores the value computed from the
\* balance that was loaded; then the status is set and both locks released.
ExecuteApply(t) ==
    /\ pc[t] = "ex_apply"
    /\ LET p == local[t].proc
           a == local[t].acc
           newBalance == IF processes[p].type = "Deposit"
                         THEN DepositResult(local[t].bal, processes[p].amount)
                         ELSE WithdrawResult(local[t].bal, processes[p].amount)
       IN  /\ accounts' = [accounts EXCEPT ![a].balance = newBalance]
           /\ processes' = [processes EXCEPT ![p].status = "Completed"]
           /\ accMutex' = [accMutex EXCEPT ![a] = NoThread]
    /\ bankMutex' = NoThread
    /\ Return(t)
    /\ UNCHANGED <<accountCount, processCount, nextAccountId, nextTransactionId>>

\* ------------------------------------------------------------ checkBalance
\* findAccount, called without bankMutex; nullptr returns -1.
CheckBalanceFind(t, accountId) ==
    /\ pc[t] = "idle"
    /\ LET a == findAccount(accountId)
       IN  IF a = 0
           THEN UNCHANGED <<pc, local>>
           ELSE /\ local' = [local EXCEPT ![t].acc = a]
                /\ pc' = [pc EXCEPT ![t] = "cb_lock"]
    /\ UNCHANGED <<ledger, bankMutex, accMutex>>

\* A balance check that also waits for bankMutex: the fault C13 rules out.
CheckBalanceLock_BankWide(t) ==
    /\ pc[t] = "cb_lock"
    /\ CanLock(bankMutex)
    /\ CanLock(accMutex[local[t].acc])
    /\ accMutex' = [accMutex EXCEPT ![local[t].acc] = t]
    /\ pc' = [pc EXCEPT ![t] = "cb_read"]
    /\ UNCHANGED <<ledger, bankMutex, local>>

\* lock_guard<mutex> lock(acc->accMutex)
CheckBalanceLock(t) ==
    /\ pc[t] = "cb_lock"
    /\ CanLock(accMutex[local[t].acc])
    /\ accMutex' = [accMutex EXCEPT ![local[t].acc] = t]
    /\ pc' = [pc EXCEPT ![t] = "cb_read"]
    /\ UNCHANGED <<ledger, bankMutex, local>>

\* A balance check that returns without releasing the account's mutex: the
\* fault C14 rules out.
CheckBalanceRead_NoUnlock(t) ==
    /\ pc[t] = "cb_read"
    /\ Return(t)
    /\ UNCHANGED <<ledger, bankMutex, accMutex>>

\* "return acc->balance" and the release of the account's mutex.
CheckBalanceRead(t) ==
    /\ pc[t] = "cb_read"
    /\ accMutex' = [accMutex EXCEPT ![local[t].acc] = NoThread]
    /\ Return(t)
    /\ UNCHANGED <<ledger, bankMutex>>

\* ---------------------------------------------------------- printProcesses
PrintProcessesLock(t) ==
    /\ pc[t] = "idle"
    /\ CanLock(bankMutex)
    /\ bankMutex' = t
    /\ pc' = [pc EXCEPT ![t] = "pp_body"]
    /\ UNCHANGED <<ledger, accMutex, local>>

PrintProcessesBody(t) ==
    /\ pc[t] = "pp_body"
    /\ bankMutex' = NoThread
    /\ Return(t)
    /\ UNCHANGED <<ledger, accMutex>>

\* ------------------------------------------------------------ specification
Next ==
    \E t \in Threads :
        \/ CreateAccountLock(t)
        \/ \E c \in CustomerIds, b \in Amounts : CreateAccountCheck(t, c, b)
        \/ CreateAccountWrite(t)
        \/ CreateAccountCommit(t)
        \/ CreateProcessLock(t)
        \/ \E a \in AccountIdArgs, k \in Types, m \in Amounts :
               CreateProcessBody(t, a, k, m)
        \/ ExecuteLock(t)
        \/ \E tid \in TidArgs : ExecuteFind(t, tid)
        \/ ExecuteAccLock(t)
        \/ ExecuteCheck(t)
        \/ ExecuteApply(t)
        \/ \E a \in AccountIdArgs : CheckBalanceFind(t, a)
        \/ CheckBalanceLock(t)
        \/ CheckBalanceRead(t)
        \/ PrintProcessesLock(t)
        \/ PrintProcessesBody(t)

Spec == Init /\ [][Next]_vars

\* ------------------------------------------------ what the claims speak of
ProcessSlots == 1..MAX_PROCESSES
AccountSlots == 1..MAX_ACCOUNTS
Terminal == {"Completed", "Failed"}

\* No active account below accountCount has the id (written out, not findAccount).
NoSuchAccount(aid) ==
    ~ \E k \in 1..accountCount : accounts[k].active /\ accounts[k].id = aid

\* -------------------------------------------------------------------- C1
\* C1: in every reachable state every created account (every slot that a
\* createAccount has written) has a balance >= 0.
C1_BalanceNonNegative ==
    \A k \in AccountSlots : accounts[k].active => accounts[k].balance >= 0

\* A withdrawal has emptied an account: the case in which a further or a
\* larger withdrawal would drive the balance below zero.
C1_Witness ==
    \E k \in 1..accountCount, p \in 1..processCount :
        /\ accounts[k].balance = 0
        /\ processes[p].aid = accounts[k].id
        /\ processes[p].type = "Withdraw"
        /\ processes[p].status = "Completed"

\* -------------------------------------------------------------------- C2
\* C2: once a transaction's status is Completed or Failed, no later step
\* changes it.
C2_StatusTerminal ==
    [][\A p \in ProcessSlots :
          processes[p].status \in Terminal =>
              processes'[p].status = processes[p].status]_vars

\* -------------------------------------------------------------------- C3
\* C3: a transaction's effect is applied at most once: a step that changes
\* the balance of a created account is the apply step of the execution of a
\* transaction that is still Pending.
C3_AppliedAtMostOnce ==
    [][\A k \in AccountSlots :
          (accounts[k].active /\ accounts'[k].balance # accounts[k].balance) =>
              \E t \in Threads :
                  /\ pc[t] = "ex_apply"
                  /\ local[t].acc = k
                  /\ processes[local[t].proc].status = "Pending"]_vars

\* -------------------------------------------------------------------- C4
\* C4: account ids and transaction ids are each unique and strictly
\* increasing in creation order (the order of the slots), start at 1, are all
\* below the counter that hands out the next id, and the counters never go
\* back, so no id is handed out twice.
C4_IdsInOrder ==
    /\ \A j, k \in 1..accountCount : j < k => accounts[j].id < accounts[k].id
    /\ \A j, k \in 1..processCount : j < k => processes[j].tid < processes[k].tid
    /\ accountCount >= 1 => accounts[1].id = 1
    /\ processCount >= 1 => processes[1].tid = 1
    /\ \A k \in 1..accountCount : accounts[k].id < nextAccountId
    /\ \A k \in 1..processCount : processes[k].tid < nextTransactionId
    /\ \A t \in Threads : pc[t] \in {"ca_write", "ca_commit"} =>
           /\ local[t].accountId < nextAccountId
           /\ \A k \in 1..accountCount : accounts[k].id < local[t].accountId

C4_IdsUniqueIncreasing ==
    /\ []C4_IdsInOrder
    /\ [][/\ nextAccountId' >= nextAccountId
          /\ nextTransactionId' >= nextTransactionId]_vars

\* Both tables are full, so every id the program can hand out is in a slot.
C4_Witness ==
    /\ accountCount = MAX_ACCOUNTS
    /\ processCount = MAX_PROCESSES

\* -------------------------------------------------------------------- C5
\* The scenario of C5: one fresh account with balance 0 and n Pending
\* deposits of the same amount a > 0 on it, the state the program is in after
\* createAccount("alice", 0) and n calls createProcess(1, "Deposit", a).
\* Caller t executes transaction t, once, while every caller may read the
\* balance at any time.
DepositCounts == {n \in 1..MAX_PROCESSES : n <= NThreads}

DepositsInit ==
    \E n \in DepositCounts, a \in 1..MaxBalance :
        /\ n * a <= MaxBalance
        /\ accounts = [k \in AccountSlots |->
                          IF k = 1
                          THEN [id |-> 1, customerId |-> "alice",
                                balance |-> 0, active |-> TRUE]
                          ELSE NoAccount]
        /\ processes = [p \in ProcessSlots |->
                           IF p <= n
                           THEN [tid |-> p, aid |-> 1, type |-> "Deposit",
                                 amount |-> a, status |-> "Pending"]
                           ELSE NoProcess]
        /\ accountCount = 1
        /\ processCount = n
        /\ nextAccountId = 2
        /\ nextTransactionId = n + 1
        /\ bankMutex = NoThread
        /\ accMutex = [k \in AccountSlots |-> NoThread]
        /\ pc = [t \in Threads |-> "idle"]
        /\ local = [t \in Threads |-> NoLocal]

DepositsNext ==
    \E t \in Threads :
        \/ /\ t <= processCount
           /\ processes[t].status = "Pending"
           /\ ExecuteLock(t)
        \/ ExecuteFind(t, t)
        \/ ExecuteAccLock(t)
        \/ ExecuteCheck(t)
        \/ ExecuteApply(t)
        \/ CheckBalanceFind(t, 1)
        \/ CheckBalanceLock(t)
        \/ CheckBalanceRead(t)

SpecDeposits == DepositsInit /\ [][DepositsNext]_vars

\* C5: no lost updates: no deposit fails, at every moment the balance is the
\* amount times the number of deposits completed so far, and so it is n * a
\* once all n deposits have been executed, whatever the interleaving.
C5_NoLostUpdate ==
    LET done == {p \in 1..processCount : processes[p].status = "Completed"}
    IN  /\ \A p \in 1..processCount : processes[p].status # "Failed"
        /\ accounts[1].balance = processes[1].amount * Cardinality(done)
        /\ (\A p \in 1..processCount : processes[p].status = "Completed") =>
               accounts[1].balance = processCount * processes[1].amount

\* Two callers have executed their deposits and both are Completed.
C5_Witness ==
    /\ processCount >= 2
    /\ \A p \in 1..processCount : processes[p].status = "Completed"
    /\ \A t \in Threads : pc[t] = "idle"

\* -------------------------------------------------------------------- C6
\* C6: the execution of a Pending Withdraw of amount a on an existing account
\* with balance b, when 0 < a <= b, goes on to its apply step with the balance
\* still b, and the apply step makes the balance b - a and the status
\* Completed; when a > b or a <= 0, it leaves the balance b and makes the
\* status Failed.
C6_WithdrawExecution ==
    [][\A t \in Threads :
          LET p == local[t].proc
              k == local[t].acc
              a == processes[p].amount
              b == accounts[k].balance
          IN  (/\ pc[t] \in {"ex_check", "ex_apply"}
               /\ pc'[t] # pc[t]
               /\ processes[p].type = "Withdraw"
               /\ processes[p].status = "Pending") =>
                  IF pc[t] = "ex_apply"
                  THEN /\ 0 < a /\ a <= b
                       /\ accounts'[k].balance = b - a
                       /\ processes'[p].status = "Completed"
                       /\ pc'[t] = "idle"
                  ELSE IF 0 < a /\ a <= b
                  THEN /\ pc'[t] = "ex_apply"
                       /\ accounts'[k].balance = b
                       /\ processes'[p].status = "Pending"
                  ELSE /\ pc'[t] = "idle"
                       /\ accounts'[k].balance = b
                       /\ processes'[p].status = "Failed"]_vars

\* A withdrawal of the whole balance has completed (a = b) next to one that
\* failed for lack of funds (a > b).
C6_Witness ==
    \E p, q \in 1..processCount, k \in 1..accountCount :
        /\ processes[p].type = "Withdraw" /\ processes[p].status = "Completed"
        /\ processes[q].type = "Withdraw" /\ processes[q].status = "Failed"
        /\ processes[q].amount > 0
        /\ processes[p].aid = accounts[k].id /\ processes[q].aid = accounts[k].id
        /\ accounts[k].balance = 0

\* -------------------------------------------------------------------- C7
\* C7: the execution of a Pending Deposit of amount a on an existing account
\* with balance b, when a > 0, goes on to its apply step with the balance
\* still b, and the apply step makes the balance b + a and the status
\* Completed; when a <= 0, it leaves the balance b and makes the status Failed.
C7_DepositExecution ==
    [][\A t \in Threads :
          LET p == local[t].proc
              k == local[t].acc
              a == processes[p].amount
              b == accounts[k].balance
          IN  (/\ pc[t] \in {"ex_check", "ex_apply"}
               /\ pc'[t] # pc[t]
               /\ processes[p].type = "Deposit"
               /\ processes[p].status = "Pending") =>
                  IF pc[t] = "ex_apply"
                  THEN /\ a > 0
                       /\ accounts'[k].balance = b + a
                       /\ processes'[p].status = "Completed"
                       /\ pc'[t] = "idle"
                  ELSE IF a > 0
                  THEN /\ pc'[t] = "ex_apply"
                       /\ accounts'[k].balance = b
                       /\ processes'[p].status = "Pending"
                  ELSE /\ pc'[t] = "idle"
                       /\ accounts'[k].balance = b
                       /\ processes'[p].status = "Failed"]_vars

\* A deposit has completed on an account next to a deposit of amount 0 that
\* failed on it.
C7_Witness ==
    \E p, q \in 1..processCount, k \in 1..accountCount :
        /\ processes[p].type = "Deposit" /\ processes[p].status = "Completed"
        /\ processes[q].type = "Deposit" /\ processes[q].status = "Failed"
        /\ processes[q].amount = 0
        /\ processes[p].aid = accounts[k].id /\ processes[q].aid = accounts[k].id
        /\ accounts[k].balance > 0

\* -------------------------------------------------------------------- C8
\* C8: executing a recorded transaction whose accountId matches no active
\* account at that moment makes its status Failed, ends the execution and
\* changes no account.
C8_AccountNotFound ==
    [][\A t \in Threads, tid \in TidArgs :
          LET hits == {p \in 1..processCount : processes[p].tid = tid}
          IN  (/\ ExecuteFind(t, tid)
               /\ hits # {}
               /\ \A p \in hits : NoSuchAccount(processes[p].aid)) =>
                  /\ \A p \in hits : processes'[p].status = "Failed"
                  /\ accounts' = accounts
                  /\ pc'[t] = "idle"]_vars

\* A transaction on account id 2 has failed while only account 1 exists.
C8_Witness ==
    \E p \in 1..processCount :
        /\ accountCount = 1
        /\ processes[p].aid = 2
        /\ processes[p].status = "Failed"
        /\ processes[p].type = "Deposit"
        /\ processes[p].amount > 0

\* -------------------------------------------------------------------- C9
\* C9: createAccount with initialBalance < 0 returns (with its error) and
\* leaves the whole ledger unchanged: accounts, transactions, both counts and
\* both id counters, so the next createAccount that succeeds gets the id it
\* would have got without the failed call.
C9_NegativeInitialBalance ==
    [][\A t \in Threads, c \in CustomerIds, b \in Amounts :
          (b < 0 /\ CreateAccountCheck(t, c, b)) =>
              /\ ledger' = ledger
              /\ pc'[t] = "idle"
              /\ bankMutex' = NoThread]_vars

\* A createAccount is about to check its arguments while the table has an
\* account and room for another: a negative initial balance is then refused
\* for its sign alone.
C9_Witness ==
    \E t \in Threads :
        /\ pc[t] = "ca_check"
        /\ accountCount = 1
        /\ nextAccountId = 2
        /\ processCount >= 1

\* ------------------------------------------------------------------- C10
\* C10: a createAccount that finds the account table full and a createProcess
\* that finds the process table full return (with their error) and leave
\* every account, transaction, count and id counter unchanged; and the counts
\* never exceed MAX_ACCOUNTS and MAX_PROCESSES.
C10_WithinCapacity ==
    /\ accountCount <= MAX_ACCOUNTS
    /\ processCount <= MAX_PROCESSES

C10_CapacityEnforced ==
    /\ []C10_WithinCapacity
    /\ [][\A t \in Threads :
             ((\/ pc[t] = "ca_check" /\ accountCount = MAX_ACCOUNTS
               \/ pc[t] = "cp_body" /\ processCount = MAX_PROCESSES)
              /\ pc'[t] # pc[t]) =>
                 /\ ledger' = ledger
                 /\ pc'[t] = "idle"
                 /\ bankMutex' = NoThread]_vars

\* Both tables are full, one caller is inside createProcess and about to run
\* its capacity check, and a transaction has been executed.
C10_Witness ==
    \E t \in Threads :
        /\ pc[t] = "cp_body"
        /\ accountCount = MAX_ACCOUNTS
        /\ processCount = MAX_PROCESSES
        /\ \E p \in ProcessSlots : processes[p].status = "Completed"

\* ------------------------------------------------------------------- C11
\* The part of executeProcess after the account's mutex is taken: the check,
\* the mutation and the status (with the lookup: InExecution).
InSection(t) == pc[t] \in {"ex_check", "ex_apply"}
InExecution(t) == pc[t] \in {"ex_find", "ex_acclock", "ex_check", "ex_apply"}

\* C11: executions on different accounts proceed in parallel: while a caller
\* u is inside the section of its execution on one account and a recorded
\* transaction targets another existing account, an idle caller t can enter
\* executeProcess without waiting for u to finish.
C11_ParallelExecution ==
    \A t, u \in Threads :
        (/\ t # u
         /\ pc[t] = "idle"
         /\ InSection(u)
         /\ \E p \in 1..processCount, k \in 1..accountCount :
                /\ k # local[u].acc
                /\ accounts[k].active
                /\ accounts[k].id = processes[p].aid) =>
            ENABLED ExecuteLock(t)

\* What the code does instead: no two callers are ever inside executeProcess
\* at the same time, whatever accounts their transactions target.
C11_Serialized ==
    \A t, u \in Threads : (t # u /\ InExecution(t)) => ~InExecution(u)

\* ------------------------------------------------------------------- C12
\* C12: per-account mutual exclusion: never are two executions inside the
\* check-mutate-status section of the same account, and never does a
\* checkBalance read an account's balance while an execution is inside the
\* section of that account.
C12_AccountMutualExclusion ==
    \A t, u \in Threads :
        (t # u /\ InSection(u)) =>
            /\ ~(InSection(t) /\ local[t].acc = local[u].acc)
            /\ ~(pc[t] = "cb_read" /\ local[t].acc = local[u].acc)

\* An execution is inside the section of an account while a checkBalance of
\* the same account waits for the account's mutex.
C12_Witness ==
    \E t, u \in Threads :
        /\ pc[u] = "ex_apply"
        /\ pc[t] = "cb_lock"
        /\ local[t].acc = local[u].acc

\* ------------------------------------------------------------------- C13
\* C13: a checkBalance holds, of all locks, only the mutex of its account and
\* never bankMutex, and nothing but that mutex makes it wait: it can start
\* whoever holds bankMutex, it can take its account's mutex whenever that
\* mutex is free, and it can finish once it has it, also while an execution
\* on another account or a creation is in progress.
C13_CheckBalanceAccountOnly ==
    \A t \in Threads :
        /\ pc[t] \in {"cb_lock", "cb_read"} =>
               /\ bankMutex # t
               /\ \A k \in AccountSlots : accMutex[k] = t =>
                      (k = local[t].acc /\ pc[t] = "cb_read")
        /\ pc[t] = "idle" =>
               \A a \in AccountIdArgs : ENABLED CheckBalanceFind(t, a)
        /\ (pc[t] = "cb_lock" /\ accMutex[local[t].acc] = NoThread) =>
               ENABLED CheckBalanceLock(t)
        /\ pc[t] = "cb_read" => ENABLED CheckBalanceRead(t)

\* A checkBalance has the mutex of one account and is about to return its
\* balance while an execution is inside the section of another account.
C13_Witness ==
    \E t, u \in Threads :
        /\ pc[t] = "cb_read"
        /\ pc[u] = "ex_apply"
        /\ local[t].acc # local[u].acc
        /\ bankMutex = u

\* ------------------------------------------------------------------- C14
\* A small ledger in which every path of executeProcess can be taken: account
\* 1 with balance 1, a Pending withdrawal of 1 from it (completes, and is
\* refused when executed again) and a Pending deposit of 1 on account 2
\* (fails until that account is created); the state after
\* createAccount("alice", 1), createProcess(1, "Withdraw", 1) and
\* createProcess(2, "Deposit", 1).
FairInit ==
    /\ accounts = [k \in AccountSlots |->
                      IF k = 1
                      THEN [id |-> 1, customerId |-> "alice",
                            balance |-> 1, active |-> TRUE]
                      ELSE NoAccount]
    /\ processes = [p \in ProcessSlots |->
                       IF p = 1
                       THEN [tid |-> 1, aid |-> 1, type |-> "Withdraw",
                             amount |-> 1, status |-> "Pending"]
                       ELSE IF p = 2
                       THEN [tid |-> 2, aid |-> 2, type |-> "Deposit",
                             amount |-> 1, status |-> "Pending"]
                       ELSE NoProcess]
    /\ accountCount = 1
    /\ processCount = 2
    /\ nextAccountId = 2
    /\ nextTransactionId = 3
    /\ bankMutex = NoThread
    /\ accMutex = [k \in AccountSlots |-> NoThread]
    /\ pc = [t \in Threads |-> "idle"]
    /\ local = [t \in Threads |-> NoLocal]

\* The next step of a caller that is inside an operation.
Continue(t) ==
    /\ pc[t] # "idle"
    /\ \/ \E c \in CustomerIds, b \in Amounts : CreateAccountCheck(t, c, b)
       \/ CreateAccountWrite(t)
       \/ CreateAccountCommit(t)
       \/ \E a \in AccountIdArgs, k \in Types, m \in Amounts :
              CreateProcessBody(t, a, k, m)
       \/ \E tid \in TidArgs : ExecuteFind(t, tid)
       \/ ExecuteAccLock(t)
       \/ ExecuteCheck(t)
       \/ ExecuteApply(t)
       \/ CheckBalanceLock(t)
       \/ CheckBalanceRead(t)
       \/ PrintProcessesBody(t)

\* The scheduler lets every caller that can go on take its next step; no
\* caller has to start an operation.
SpecFair ==
    /\ FairInit
    /\ [][Next]_vars
    /\ \A t \in Threads : WF_vars(Continue(t))

\* No deadlock: when callers are inside operations, one of them can go on.
C14_NoDeadlock ==
    (\E t \in Threads : pc[t] # "idle") =>
        \E t \in Threads : ENABLED Continue(t)

\* Every lock is released on every path: bankMutex is held only by a caller
\* inside a creation, an execution or printProcesses, an account's mutex only
\* by a caller inside the section of an execution on that account or about to
\* read its balance; so a caller that has returned holds no lock.
C14_LocksReleased ==
    /\ \A t \in Threads :
           bankMutex = t <=>
               pc[t] \in {"ca_check", "ca_write", "ca_commit", "cp_body",
                          "ex_find", "ex_acclock", "ex_check", "ex_apply",
                          "pp_body"}
    /\ \A t \in Threads, k \in AccountSlots :
           accMutex[k] = t <=>
               (pc[t] \in {"ex_check", "ex_apply", "cb_read"} /\ local[t].acc = k)

C14_EveryOperationReturns ==
    \A t \in Threads : (pc[t] # "idle") ~> (pc[t] = "idle")

C14_FairAccountMutex ==
    \A t \in Threads :
        /\ SF_vars(ExecuteAccLock(t))
        /\ SF_vars(CheckBalanceLock(t))

DeferredInit ==
    \E a \in AccountIdArgs :
        /\ accounts = [k \in AccountSlots |-> NoAccount]
        /\ processes = [p \in ProcessSlots |->
                           IF p = 1
                           THEN [tid |-> 1, aid |-> a, type |-> "Deposit",
                                 amount |-> 1, status |-> "Pending"]
                           ELSE NoProcess]
        /\ accountCount = 0
        /\ processCount = 1
        /\ nextAccountId = 1
        /\ nextTransactionId = 2
        /\ bankMutex = NoThread
        /\ accMutex = [k \in AccountSlots |-> NoThread]
        /\ pc = [t \in Threads |-> "idle"]
        /\ local = [t \in Threads |-> NoLocal]

SpecDeferred == DeferredInit /\ [][Next]_vars

\* C15: below capacity createProcess succeeds whatever accountId, type and
\* amount are: it appends one Pending transaction with the next sequential id
\* and changes nothing else; and an execution of a recorded transaction whose
\* account exists at that moment goes on to the account's section without
\* failing, whenever the transaction was created.
C15_CreationDefersValidation ==
    [][/\ \A t \in Threads, a \in AccountIdArgs, k \in Types, m \in Amounts :
             (CreateProcessBody(t, a, k, m) /\ processCount < MAX_PROCESSES) =>
                 /\ processes' = [processes EXCEPT ![processCount + 1] =
                                     [tid |-> processCount + 1, aid |-> a,
                                      type |-> k, amount |-> m,
                                      status |-> "Pending"]]
                 /\ processCount' = processCount + 1
                 /\ nextTransactionId' = processCount + 2
                 /\ accounts' = accounts
                 /\ accountCount' = accountCount
                 /\ nextAccountId' = nextAccountId
                 /\ pc'[t] = "idle"
       /\ \A t \in Threads, tid \in TidArgs :
             LET hits == {p \in 1..processCount : processes[p].tid = tid}
             IN  (/\ ExecuteFind(t, tid)
                  /\ hits # {}
                  /\ \A p \in hits : ~NoSuchAccount(processes[p].aid)) =>
                     /\ pc'[t] = "ex_acclock"
                     /\ processes' = processes
                     /\ accounts' = accounts]_vars

\* The deposit that was created before any account existed has completed.
C15_Witness ==
    /\ processes[1].status = "Completed"
    /\ processCount = MAX_PROCESSES

\* ------------------------------------------------------------------- C16
\* C16: executeProcess(tid) with a tid that no recorded transaction has (the
\* -1 of a failed createProcess included) returns after the search with both
\* mutexes free and the whole ledger as it was: no balance, no status, no
\* count and no id counter changes.
C16_UnknownTidNoEffect ==
    [][/\ \A t \in Threads : ExecuteLock(t) => ledger' = ledger
       /\ \A t \in Threads, tid \in TidArgs :
             (/\ ExecuteFind(t, tid)
              /\ \A p \in 1..processCount : processes[p].tid # tid) =>
                 /\ ledger' = ledger
                 /\ pc'[t] = "idle"
                 /\ bankMutex' = NoThread
                 /\ accMutex' = accMutex]_vars

\* A caller is about to search while a Pending transaction and an account
\* with money exist, and some tid of the inputs is not recorded.
C16_Witness ==
    \E t \in Threads :
        /\ pc[t] = "ex_find"
        /\ processCount = 1
        /\ processes[1].status = "Pending"
        /\ \E k \in 1..accountCount :
               accounts[k].id = processes[1].aid /\ accounts[k].balance > 0

\* ------------------------------------------------------------------- C17
\* A step of caller t inside executeProcess: from its first statement to its
\* return.
ExecuteStep(t) ==
    /\ pc'[t] # pc[t]
    /\ InExecution(t) \/ pc'[t] = "ex_find"

\* C17: the frame of executeProcess.  While a caller is inside it nobody else
\* changes the ledger; its own steps change nothing but the status of the
\* transaction it was called with and the balance of the account that
\* transaction references: ids, owners, active flags, the other fields of
\* every transaction, both counts and both id counters stay; only the
\* returning step writes, it writes a balance only together with Completed,
\* and a step that sets Failed changes no account.
C17_ExecutionFrame ==
    [][\A t \in Threads :
          /\ (InExecution(t) /\ pc'[t] = pc[t]) => ledger' = ledger
          /\ ExecuteStep(t) =>
                /\ <<accountCount, processCount, nextAccountId,
                     nextTransactionId>>' =
                   <<accountCount, processCount, nextAccountId,
                     nextTransactionId>>
                /\ \A k \in AccountSlots :
                      /\ accounts'[k].id = accounts[k].id
                      /\ accounts'[k].customerId = accounts[k].customerId
                      /\ accounts'[k].active = accounts[k].active
                /\ \A p \in ProcessSlots :
                      /\ processes'[p].tid = processes[p].tid
                      /\ processes'[p].aid = processes[p].aid
                      /\ processes'[p].type = processes[p].type
                      /\ processes'[p].amount = processes[p].amount
                /\ pc'[t] # "idle" => ledger' = ledger
                /\ \A tid \in TidArgs :
                      ExecuteFind(t, tid) =>
                          /\ \A p \in ProcessSlots :
                                processes'[p] # processes[p] =>
                                    processes[p].tid = tid
                          /\ pc'[t] = "ex_acclock" =>
                                processes[local'[t].proc].tid = tid
                /\ pc[t] \in {"ex_acclock", "ex_check", "ex_apply"} =>
                      /\ accounts[local[t].acc].id =
                             processes[local[t].proc].aid
                      /\ \A p \in ProcessSlots :
                            processes'[p] # processes[p] => p = local[t].proc
                      /\ \A k \in AccountSlots :
                            accounts'[k] # accounts[k] =>
                                /\ k = local[t].acc
                                /\ processes'[local[t].proc].status = "Completed"
                /\ (\E p \in ProcessSlots :
                       /\ processes'[p] # processes[p]
                       /\ processes'[p].status = "Failed")
                      => accounts' = accounts
                /\ (pc[t] = "ex_check" /\ pc'[t] = "idle") =>
                      /\ processes'[local[t].proc].status = "Failed"
                      /\ accounts' = accounts]_vars

\* One transaction has completed on one account and another has failed on a
\* second account that holds money.
C17_Witness ==
    /\ accountCount = 2
    /\ processes[1].status = "Completed"
    /\ processes[2].status = "Failed"
    /\ \E j, k \in 1..accountCount :
          /\ j # k
          /\ accounts[j].id = processes[1].aid
          /\ accounts[k].id = processes[2].aid
          /\ accounts[k].balance > 0

\* ------------------------------------------------------------------- C18
\* C18: an execution that has found its transaction and the account, and whose
\* transaction's type is neither "Deposit" nor "Withdraw", never gets to the
\* balance update: its next step marks that transaction Failed, changes no
\* other transaction and no account, and returns, whatever the amount is.
C18_UnknownTypeFails ==
    [][\A t \in Threads :
          /\ pc[t] = "ex_apply" =>
                processes[local[t].proc].type \in {"Deposit", "Withdraw"}
          /\ (/\ pc[t] = "ex_check"
              /\ pc'[t] # pc[t]
              /\ processes[local[t].proc].type \notin {"Deposit", "Withdraw"}) =>
                 /\ processes' =
                        [processes EXCEPT ![local[t].proc].status = "Failed"]
                 /\ accounts' = accounts
                 /\ pc'[t] = "idle"]_vars

\* A caller holds the account's mutex for a "Transfer" with a positive amount
\* on an account that has money.
C18_Witness ==
    \E t \in Threads :
        /\ pc[t] = "ex_check"
        /\ processes[local[t].proc].type = "Transfer"
        /\ processes[local[t].proc].amount > 0
        /\ accounts[local[t].acc].balance > 0

\* ------------------------------------------------------------------- C19
\* Runs in which no transaction is executed twice, and in which the callers
\* name each customer after the opening balance, so that a state tells what
\* every account was opened with.  customerId is stored by createAccount and
\* read by nothing.
OnceNames == <<"open0", "open1", "open2", "open3">>
OnceCustomer(initialBalance) ==
    IF initialBalance \in 0..(Len(OnceNames) - 1)
    THEN OnceNames[initialBalance + 1]
    ELSE "alice"
OpenedWith(customerId) ==
    CHOOSE b \in 0..(Len(OnceNames) - 1) : OnceNames[b + 1] = customerId

\* An executeProcess(tid) that is the first one for tid: tid is not recorded,
\* or its transaction is still Pending.
ExecuteFindOnce(t, tid) ==
    /\ LET p == FindProcess(tid)
       IN  IF p = 0 THEN TRUE ELSE processes[p].status = "Pending"
    /\ ExecuteFind(t, tid)

OnceNext ==
    \E t \in Threads :
        \/ CreateAccountLock(t)
        \/ \E b \in Amounts : CreateAccountCheck(t, OnceCustomer(b), b)
        \/ CreateAccountWrite(t)
        \/ CreateAccountCommit(t)
        \/ CreateProcessLock(t)
        \/ \E a \in AccountIdArgs, k \in Types, m \in Amounts :
               CreateProcessBody(t, a, k, m)
        \/ ExecuteLock(t)
        \/ \E tid \in TidArgs : ExecuteFindOnce(t, tid)
        \/ ExecuteAccLock(t)
        \/ ExecuteCheck(t)
        \/ ExecuteApply(t)
        \/ \E a \in AccountIdArgs : CheckBalanceFind(t, a)
        \/ CheckBalanceLock(t)
        \/ CheckBalanceRead(t)
        \/ PrintProcessesLock(t)
        \/ PrintProcessesBody(t)

SpecOnce == Init /\ [][OnceNext]_vars

\* The sum of the amounts of the Completed transactions of one type that
\* reference account id aid, over the first n recorded transactions.
RECURSIVE CompletedSum(_, _, _)
CompletedSum(n, aid, type) ==
    IF n = 0 THEN 0
    ELSE CompletedSum(n - 1, aid, type)
         + (IF /\ processes[n].aid = aid
               /\ processes[n].type = type
               /\ processes[n].status = "Completed"
            THEN processes[n].amount ELSE 0)

\* C19: when no transaction is executed twice, in every reachable state each
\* account's balance is its opening balance plus its Completed deposits minus
\* its Completed withdrawals; Pending and Failed transactions add nothing.
C19_Conservation ==
    \A k \in 1..accountCount :
        accounts[k].balance =
            OpenedWith(accounts[k].customerId)
            + CompletedSum(processCount, accounts[k].id, "Deposit")
            - CompletedSum(processCount, accounts[k].id, "Withdraw")

\* An account opened with 1 has had a deposit and a withdrawal completed.
C19_Witness ==
    /\ processCount = 2
    /\ \E p, q \in 1..processCount, k \in 1..accountCount :
          /\ processes[p].type = "Deposit" /\ processes[p].status = "Completed"
          /\ processes[q].type = "Withdraw" /\ processes[q].status = "Completed"
          /\ processes[p].aid = accounts[k].id
          /\ processes[q].aid = accounts[k].id
          /\ OpenedWith(accounts[k].customerId) = 1

\* ------------------------------------------------------------------- C20
\* checkBalance calls findAccount without bankMutex while createAccount
\* writes accounts[accountCount] and accountCount under it: a data race.  The
\* five stores of createAccount are ordered by nothing another thread can
\* rely on, so they reach memory in any order, and a field that has not been
\* written holds an indeterminate value (main's BankSystem is
\* default-initialized).
Stores == {"id", "customerId", "balance", "active", "count"}

\* The slot the creating caller t writes: accounts[accountCount] as t saw it.
RaceSlot(t) ==
    IF "count" \in local[t].done THEN accountCount ELSE accountCount + 1

\* Field f of slot k is still to be written by a createAccount in progress.
Unwritten(k, f) ==
    \E u \in Threads :
        /\ pc[u] = "ca_write"
        /\ RaceSlot(u) = k
        /\ f \notin local[u].done

\* One store of lines 54-58 becomes visible.
CreateAccountStore(t, f) ==
    /\ pc[t] = "ca_write"
    /\ f \notin local[t].done
    /\ LET k == RaceSlot(t)
       IN  CASE f = "id" ->
                  /\ accounts' = [accounts EXCEPT ![k].id = local[t].accountId]
                  /\ accountCount' = accountCount
             [] f = "customerId" ->
                  /\ accounts' = [accounts EXCEPT
                                     ![k].customerId = local[t].customerId]
                  /\ accountCount' = accountCount
             [] f = "balance" ->
                  /\ accounts' = [accounts EXCEPT ![k].balance = local[t].amount]
                  /\ accountCount' = accountCount
             [] f = "active" ->
                  /\ accounts' = [accounts EXCEPT ![k].active = TRUE]
                  /\ accountCount' = accountCount
             [] f = "count" ->
                  /\ accountCount' = accountCount + 1
                  /\ accounts' = accounts
    /\ local' = [local EXCEPT ![t].done = @ \cup {f}]
    /\ UNCHANGED <<processes, processCount, nextAccountId, nextTransactionId,
                   bankMutex, accMutex, pc>>

\* "return accountId" once every store is done.
CreateAccountReturn(t) ==
    /\ pc[t] = "ca_write"
    /\ local[t].done = Stores
    /\ bankMutex' = NoThread
    /\ Return(t)
    /\ UNCHANGED <<ledger, accMutex>>

\* What "accounts[k].active && accounts[k].id == accountId" can evaluate to.
MayMatch(k, accountId) ==
    /\ accounts[k].active \/ Unwritten(k, "active")
    /\ accounts[k].id = accountId \/ Unwritten(k, "id")
MayMiss(k, accountId) ==
    \/ ~accounts[k].active \/ Unwritten(k, "active")
    \/ accounts[k].id # accountId \/ Unwritten(k, "id")

\* findAccount as checkBalance runs it, racing with the stores.
CheckBalanceFindRace(t, accountId) ==
    /\ pc[t] = "idle"
    /\ \/ /\ \A k \in 1..accountCount : MayMiss(k, accountId)
          /\ UNCHANGED <<pc, local>>
       \/ \E a \in 1..accountCount :
             /\ MayMatch(a, accountId)
             /\ \A k \in 1..(a - 1) : MayMiss(k, accountId)
             /\ local' = [local EXCEPT ![t].acc = a]
             /\ pc' = [pc EXCEPT ![t] = "cb_lock"]
    /\ UNCHANGED <<ledger, bankMutex, accMutex>>

RaceNext ==
    \E t \in Threads :
        \/ CreateAccountLock(t)
        \/ \E c \in CustomerIds, b \in Amounts : CreateAccountCheck(t, c, b)
        \/ \E f \in Stores : CreateAccountStore(t, f)
        \/ CreateAccountReturn(t)
        \/ \E a \in AccountIdArgs : CheckBalanceFindRace(t, a)
        \/ CheckBalanceLock(t)
        \/ CheckBalanceRead(t)

SpecRace == Init /\ [][RaceNext]_vars

====
